---- MODULE Spec2Model ----
(***************************************************************************)
(* A model of taskpane.js, the task pane script of the signature-contact   *)
(* Outlook add-in: the text-extraction functions (htmlToText,              *)
(* extractPhoneFR, normalizePhone, guessFullName), the contact payload     *)
(* built by createContactOnGraph, and the two asynchronous handlers        *)
(* scanAndFill and createContact interleaved with the user's edits.        *)
(*                                                                         *)
(* A JavaScript string is modelled as a sequence of one-character strings, *)
(* so that the regular expressions of the source are computed character by *)
(* character.                                                              *)
(***************************************************************************)
EXTENDS Naturals, Sequences, FiniteSets, TLC

VARIABLES
    item,      \* Office.context.mailbox.item: the message currently selected
    form,      \* the value of the three <input> elements fullName, email, phone
    logEl,     \* the #log element: its className and its innerText
    scans,     \* one record per run of scanAndFill, in the order they started
    creates,   \* one record per run of createContact, in the order they started
    nActions,  \* number of things the user has done so far
    lastEdit,  \* per field, the last edit of the user: the value typed, whether
               \* a scan had filled the form before, whether a scan wrote the field since
    call       \* a call of one of the pure functions: its arguments and results

vars == <<item, form, logEl, scans, creates, nActions, lastEdit, call>>

uiVars == <<item, form, logEl, scans, creates, nActions, lastEdit>>

(***************************************************************************)
(* Characters and character classes of the regular expressions.            *)
(***************************************************************************)
NL == "\n"

DigitChars == {"0", "1", "2", "3", "4", "5", "6", "7", "8", "9"}

UpperSeq ==
    <<"A", "B", "C", "D", "E", "F", "G", "H", "I", "J", "K", "L", "M",
      "N", "O", "P", "Q", "R", "S", "T", "U", "V", "W", "X", "Y", "Z">>

LowerSeq ==
    <<"a", "b", "c", "d", "e", "f", "g", "h", "i", "j", "k", "l", "m",
      "n", "o", "p", "q", "r", "s", "t", "u", "v", "w", "x", "y", "z">>

\* The accented letters of the character classes of line 89, in the order
\* in which the source lists them; the i-th lowercase one is the lowercase
\* form of the i-th uppercase one.
UpperAccSeq == <<"À", "Â", "Ä", "É", "È", "Ê", "Ë", "Ï", "Î", "Ô", "Ö", "Ù", "Û", "Ü", "Ç">>

LowerAccSeq == <<"à", "â", "ä", "é", "è", "ê", "ë", "ï", "î", "ô", "ö", "ù", "û", "ü", "ç">>

Range(s) == {s[i] : i \in 1..Len(s)}

\* \s of a JavaScript regular expression, and the characters String.trim
\* strips: the white space and line terminator characters.
WhiteSpace == {" ", "\t", NL, "\r", "\f"}

\* \w of a JavaScript regular expression: [A-Za-z0-9_]
WordChars == Range(UpperSeq) \cup Range(LowerSeq) \cup DigitChars \cup {"_"}

\* Canonicalize of a case-insensitive (flag i) regular expression, written
\* towards lowercase: a character of the text matches a lowercase letter of
\* the pattern when its image is that letter.
LowerMap ==
    "A" :> "a" @@ "B" :> "b" @@ "C" :> "c" @@ "D" :> "d" @@ "E" :> "e" @@ "F" :> "f" @@
    "G" :> "g" @@ "H" :> "h" @@ "I" :> "i" @@ "J" :> "j" @@ "K" :> "k" @@ "L" :> "l" @@
    "M" :> "m" @@ "N" :> "n" @@ "O" :> "o" @@ "P" :> "p" @@ "Q" :> "q" @@ "R" :> "r" @@
    "S" :> "s" @@ "T" :> "t" @@ "U" :> "u" @@ "V" :> "v" @@ "W" :> "w" @@ "X" :> "x" @@
    "Y" :> "y" @@ "Z" :> "z" @@ "À" :> "à" @@ "Â" :> "â" @@ "Ä" :> "ä" @@ "É" :> "é" @@
    "È" :> "è" @@ "Ê" :> "ê" @@ "Ë" :> "ë" @@ "Ï" :> "ï" @@ "Î" :> "î" @@ "Ô" :> "ô" @@
    "Ö" :> "ö" @@ "Ù" :> "ù" @@ "Û" :> "û" @@ "Ü" :> "ü" @@ "Ç" :> "ç"

ToLower(c) == IF c \in DOMAIN LowerMap THEN LowerMap[c] ELSE c

Min(S) == CHOOSE m \in S : \A n \in S : m <= n

(***************************************************************************)
(* String operations.                                                      *)
(***************************************************************************)
\* s.startsWith(p, i - 1): p occurs in s at position i (1-based)
StartsWithAt(s, i, p) ==
    /\ i + Len(p) - 1 <= Len(s)
    /\ \A k \in 1..Len(p) : s[i + k - 1] = p[k]

\* the same for a lowercase pattern p of a regular expression with flag i
StartsWithAtCI(s, i, p) ==
    /\ i + Len(p) - 1 <= Len(s)
    /\ \A k \in 1..Len(p) : ToLower(s[i + k - 1]) = p[k]

\* the first position >= from at which p occurs in s without regard to
\* case, 0 when there is none
FindCI(s, from, p) ==
    LET js == {j \in from..Len(s) : StartsWithAtCI(s, j, p)}
    IN  IF js = {} THEN 0 ELSE Min(js)

\* The replace operations below go from one match to the next: the text
\* before the next match is kept as it is.

\* s.replace(/<open>[\s\S]*?<close>/gi, ""): every leftmost, shortest,
\* non-overlapping span from open to the first close after it is removed.
\* An open with no close after it is no match.
RECURSIVE RemoveBlocksFrom(_, _, _, _)
RemoveBlocksFrom(s, i, open, close) ==
    LET opens == {j \in i..Len(s) : StartsWithAtCI(s, j, open)
                                    /\ FindCI(s, j + Len(open), close) # 0}
    IN  IF opens = {} THEN SubSeq(s, i, Len(s))
        ELSE SubSeq(s, i, Min(opens) - 1)
             \o RemoveBlocksFrom(s, FindCI(s, Min(opens) + Len(open), close) + Len(close),
                                 open, close)

RemoveBlocks(s, open, close) == RemoveBlocksFrom(s, 1, open, close)

\* the position of the first ">" after position i, 0 when there is none
NextGt(s, i) ==
    LET ks == {k \in (i + 1)..Len(s) : s[k] = ">"}
    IN  IF ks = {} THEN 0 ELSE Min(ks)

\* s.replace(/<[^>]+>/g, "\n"): a "<", one or more characters other than
\* ">", then ">". From a "<" the class runs to the first ">", so there is a
\* match exactly when that ">" exists and is not the next character.
RECURSIVE ReplaceTagsFrom(_, _)
ReplaceTagsFrom(s, i) ==
    LET tags == {j \in i..Len(s) : s[j] = "<" /\ NextGt(s, j) >= j + 2}
    IN  IF tags = {} THEN SubSeq(s, i, Len(s))
        ELSE SubSeq(s, i, Min(tags) - 1) \o <<NL>>
             \o ReplaceTagsFrom(s, NextGt(s, Min(tags)) + 1)

ReplaceTags(s) == ReplaceTagsFrom(s, 1)

\* s.replace(/<literal p>/g, rep): every leftmost non-overlapping
\* occurrence of p, the result not scanned again
RECURSIVE ReplaceAllFrom(_, _, _, _)
ReplaceAllFrom(s, i, p, rep) ==
    LET at == {j \in i..Len(s) : StartsWithAt(s, j, p)}
    IN  IF at = {} THEN SubSeq(s, i, Len(s))
        ELSE SubSeq(s, i, Min(at) - 1) \o rep
             \o ReplaceAllFrom(s, Min(at) + Len(p), p, rep)

ReplaceAll(s, p, rep) == ReplaceAllFrom(s, 1, p, rep)

\* the first position >= i of s that does not hold c (Len(s) + 1 if none)
RunEnd(s, i, c) ==
    Min({j \in i..(Len(s) + 1) : j = Len(s) + 1 \/ s[j] # c})

\* the pairwise collapse s.replace(/\n\n/g, "\n"), which leaves "\n\n" in
\* place of "\n\n\n\n"
CollapsePairs(s) == ReplaceAll(s, <<NL, NL>>, <<NL>>)

\* s.replace(/\n{2,}/g, "\n"): every maximal run of two or more newlines
\* becomes one newline
RECURSIVE CollapseNewlinesFrom(_, _)
CollapseNewlinesFrom(s, i) ==
    LET runs == {j \in i..Len(s) : StartsWithAt(s, j, <<NL, NL>>)}
    IN  IF runs = {} THEN SubSeq(s, i, Len(s))
        ELSE SubSeq(s, i, Min(runs) - 1) \o <<NL>>
             \o CollapseNewlinesFrom(s, RunEnd(s, Min(runs), NL))

CollapseNewlines(s) == CollapseNewlinesFrom(s, 1)

Max(S) == CHOOSE m \in S : \A n \in S : n <= m

\* the part of s from the first to the last of the positions keep
Between(s, keep) ==
    IF keep = {} THEN <<>> ELSE SubSeq(s, Min(keep), Max(keep))

\* s.trim(): s without its leading and trailing white space
Trim(s) == Between(s, {i \in 1..Len(s) : s[i] \notin WhiteSpace})

(***************************************************************************)
(* htmlToText (lines 37-50)                                                *)
(***************************************************************************)
StyleOpen == <<"<", "s", "t", "y", "l", "e">>

StyleClose == <<"<", "/", "s", "t", "y", "l", "e", ">">>

ScriptOpen == <<"<", "s", "c", "r", "i", "p", "t">>

ScriptClose == <<"<", "/", "s", "c", "r", "i", "p", "t", ">">>

EntNbsp == <<"&", "n", "b", "s", "p", ";">>

EntAmp == <<"&", "a", "m", "p", ";">>

EntLt == <<"&", "l", "t", ";">>

EntGt == <<"&", "g", "t", ";">>

\* lines 38-41: the style blocks, then the script blocks, then the tags
StripTags(html) ==
    ReplaceTags(RemoveBlocks(RemoveBlocks(html, StyleOpen, StyleClose),
                             ScriptOpen, ScriptClose))

\* lines 43-46: the four entities, one replace after the other
DecodeEntities(s) ==
    ReplaceAll(ReplaceAll(ReplaceAll(ReplaceAll(s,
        EntNbsp, <<" ">>), EntAmp, <<"&">>), EntLt, <<"<">>), EntGt, <<">">>)

htmlToText(html) == Trim(CollapseNewlines(DecodeEntities(StripTags(html))))

(***************************************************************************)
(* The handlers of the task pane are not running while one of the pure     *)
(* functions is exercised on its own.                                      *)
(***************************************************************************)
NoString == <<>>

UiAtRest ==
    /\ item = 0
    /\ form = [fullName |-> NoString, email |-> NoString, phone |-> NoString]
    /\ logEl = [cls |-> "", msg |-> <<>>]
    /\ scans = <<>>
    /\ creates = <<>>
    /\ nActions = 0
    /\ lastEdit = [f \in {"fullName", "email", "phone"} |-> <<>>]

(***************************************************************************)
(* htmlToText applied to a document, and then to its own output.           *)
(* The document is put together from at most MaxFrags fragments.           *)
(***************************************************************************)
MaxFrags == 3

HtmlFragments ==
    { EntAmp, EntLt, EntGt, EntNbsp,
      <<"a", "m", "p", ";">>, <<"l", "t", ";">>,
      <<"x">>, <<NL>>, <<" ">>, <<"<", "b", ">">> }

HtmlInit ==
    /\ UiAtRest
    /\ call = [fn |-> "htmlToText", stage |-> "build", n |-> 0,
               html |-> <<>>, text |-> <<>>, again |-> <<>>]

\* one more fragment at the end of the document
AppendFragment(f) ==
    /\ call.stage = "build"
    /\ call' = [call EXCEPT !.n = @ + 1, !.html = @ \o f]
    /\ UNCHANGED uiVars

HtmlAppend(f) ==
    /\ call.fn = "htmlToText"
    /\ call.n < MaxFrags
    /\ AppendFragment(f)

\* text = htmlToText(html)
HtmlNormalize ==
    /\ call.stage = "build"
    /\ call' = [call EXCEPT !.stage = "once", !.text = htmlToText(call.html)]
    /\ UNCHANGED uiVars

\* htmlToText(text), the output normalized again
HtmlRenormalize ==
    /\ call.fn = "htmlToText"
    /\ call.stage = "once"
    /\ call' = [call EXCEPT !.stage = "twice", !.again = htmlToText(call.text)]
    /\ UNCHANGED uiVars

HtmlNext ==
    \/ \E f \in HtmlFragments : HtmlAppend(f)
    \/ HtmlNormalize
    \/ HtmlRenormalize

SpecHtml == HtmlInit /\ [][HtmlNext]_vars

\* s contains a tag: a match of /<[^>]+>/
HasTag(s) == ReplaceTags(s) # s

\* s contains one of the four entity references that htmlToText decodes
HasEntity(s) ==
    \E i \in 1..Len(s) : \E e \in {EntNbsp, EntAmp, EntLt, EntGt} :
        StartsWithAt(s, i, e)

(***************************************************************************)
(* htmlToText applied to a document that holds <script> and <style>        *)
(* blocks. The document is put together from at most MaxBlockFrags         *)
(* fragments; every text fragment is a newline and a character that occurs *)
(* nowhere else in the document, so that it can be found again in the      *)
(* output.                                                                 *)
(***************************************************************************)
MaxBlockFrags == 6

Markers == <<"1", "2", "3", "4", "5", "6", "7", "8", "9">>

BlockTags ==
    { <<"<", "s", "c", "r", "i", "p", "t", ">">>,
      <<"<", "/", "S", "C", "R", "I", "P", "T", ">">>,
      <<"<", "S", "T", "Y", "L", "E", ">">>,
      StyleClose }

BlocksInit ==
    /\ UiAtRest
    /\ call = [fn |-> "blocks", stage |-> "build", n |-> 0,
               html |-> <<>>, text |-> <<>>, again |-> <<>>]

BlockAppendTag(f) ==
    /\ call.fn = "blocks"
    /\ call.n < MaxBlockFrags
    /\ AppendFragment(f)

BlockAppendText ==
    /\ call.fn = "blocks"
    /\ call.n < MaxBlockFrags
    /\ call.n < Len(Markers)
    /\ AppendFragment(<<NL, Markers[call.n + 1]>>)

BlocksNext ==
    \/ \E f \in BlockTags : BlockAppendTag(f)
    \/ BlockAppendText
    \/ HtmlNormalize

SpecBlocks == BlocksInit /\ [][BlocksNext]_vars

\* The positions of s that lie inside a <script> or <style> block, read
\* from left to right as a browser delimits them: an opening tag
\* "<script ...>" or "<style ...>" in any letter case, and the first closing
\* tag of the same element after it. The positions are those strictly
\* between the opening tag's ">" and the closing tag's "<".
RECURSIVE InsideBlocksFrom(_, _)
InsideBlocksFrom(s, i) ==
    IF i > Len(s) THEN {}
    ELSE LET close == IF StartsWithAtCI(s, i, ScriptOpen) THEN ScriptClose
                      ELSE IF StartsWithAtCI(s, i, StyleOpen) THEN StyleClose
                      ELSE <<>>
             gs == {g \in i..Len(s) : s[g] = ">"}
             g  == IF close # <<>> /\ gs # {} THEN Min(gs) ELSE 0
             c  == IF g # 0 THEN FindCI(s, g + 1, close) ELSE 0
         IN  IF c # 0
             THEN (g + 1)..(c - 1) \cup InsideBlocksFrom(s, c + Len(close))
             ELSE InsideBlocksFrom(s, i + 1)

InsideBlocks(s) == InsideBlocksFrom(s, 1)

\* C10: once a document holding <script> or <style> blocks is normalized,
\* no text character that stood inside one of its blocks occurs in the
\* output of htmlToText.
C10_BlockContentsRemoved ==
    call.fn = "blocks" /\ call.stage = "once" =>
        \A i \in InsideBlocks(call.html) :
            call.html[i] \in Range(Markers) => call.html[i] \notin Range(call.text)

\* C9 as the specification states it: normalizing the output of htmlToText again changes
\* nothing whenever that output holds no tag, and the entity-decoding step
\* and the newline-collapsing step are each idempotent.
C9_IdempotentAsStated ==
    call.fn = "htmlToText" =>
        /\ (call.stage = "twice" /\ ~HasTag(call.text) => call.again = call.text)
        /\ DecodeEntities(DecodeEntities(call.html)) = DecodeEntities(call.html)
        /\ CollapseNewlines(CollapseNewlines(call.html)) = CollapseNewlines(call.html)

\* C9: normalizing the output of htmlToText again changes nothing
\* whenever that output holds no tag and none of the four entity
\* references; the newline-collapsing step is idempotent; the
\* entity-decoding step is idempotent on every text whose decoded form
\* holds none of the four entity references.
C9_Idempotent ==
    call.fn = "htmlToText" =>
        /\ (call.stage = "twice" /\ ~HasTag(call.text) /\ ~HasEntity(call.text)
                => call.again = call.text)
        /\ CollapseNewlines(CollapseNewlines(call.html)) = CollapseNewlines(call.html)
        /\ (~HasEntity(DecodeEntities(call.html))
                => DecodeEntities(DecodeEntities(call.html)) = DecodeEntities(call.html))

\* C9, its case: a document with a tag, an entity and a run of newlines, whose normalized
\* text is not empty and came out of the second normalization unchanged
C9_Witness ==
    /\ call.fn = "htmlToText"
    /\ call.stage = "twice"
    /\ HasTag(call.html)
    /\ HasEntity(call.html)
    /\ call.text # <<>>
    /\ ~HasTag(call.text)
    /\ ~HasEntity(call.text)
    /\ call.again = call.text

(***************************************************************************)
(* extractPhoneFR and normalizePhone (lines 55-68)                         *)
(***************************************************************************)
\* [\s.\-] of lines 56 and 63
SepChars == WhiteSpace \cup {".", "-"}

IsWordAt(s, i) == i >= 1 /\ i <= Len(s) /\ s[i] \in WordChars

\* \b between positions i - 1 and i
WordBoundaryAt(s, i) == IsWordAt(s, i - 1) # IsWordAt(s, i)

IsDigitAt(s, i) == i >= 1 /\ i <= Len(s) /\ s[i] \in DigitChars

\* (?:[\s.\-]?\d{2}){k}\b from position i: the position after the match,
\* 0 when there is none. The optional separator is tried first, and the
\* match without it only when the one with it fails.
RECURSIVE MatchGroups(_, _, _)
MatchGroups(s, i, k) ==
    IF k = 0 THEN (IF WordBoundaryAt(s, i) THEN i ELSE 0)
    ELSE LET two(j) == IF IsDigitAt(s, j) /\ IsDigitAt(s, j + 1)
                       THEN MatchGroups(s, j + 2, k - 1)
                       ELSE 0
             withSep == IF i <= Len(s) /\ s[i] \in SepChars THEN two(i + 1) ELSE 0
         IN  IF withSep # 0 THEN withSep ELSE two(i)

\* number of groups of two digits in the expression of line 56
PhoneGroups == 4

\* [1-9] and the groups, from position i
MatchNational(s, i) ==
    IF IsDigitAt(s, i) /\ s[i] # "0" THEN MatchGroups(s, i + 1, PhoneGroups) ELSE 0

\* the whole expression of line 56 from position i: the position after the
\* match, 0 when there is none
MatchPhoneAt(s, i) ==
    IF StartsWithAt(s, i, <<"+", "3", "3">>)
    THEN LET withSpace == IF i + 3 <= Len(s) /\ s[i + 3] \in WhiteSpace
                          THEN MatchNational(s, i + 4)
                          ELSE 0
         IN  IF withSpace # 0 THEN withSpace ELSE MatchNational(s, i + 3)
    ELSE IF i <= Len(s) /\ s[i] = "0" /\ WordBoundaryAt(s, i)
         THEN MatchNational(s, i + 1)
         ELSE 0

NotSeparator(c) == c \notin SepChars

\* raw.replace(/[.\-\s]/g, "")
StripSeparators(raw) == SelectSeq(raw, NotSeparator)

\* normalizePhone without the conversion of the +33 prefix
normalizePhoneKeepPrefix(raw) == StripSeparators(raw)

normalizePhone(raw) ==
    LET p == StripSeparators(raw)
    IN  IF StartsWithAt(p, 1, <<"+", "3", "3">>)
        THEN <<"0">> \o SubSeq(p, 4, Len(p))
        ELSE p

\* text.match(regex) with flag g lists the matches from left to right;
\* matches[0] is the leftmost one
extractPhoneFR(text) ==
    LET starts == {i \in 1..Len(text) : MatchPhoneAt(text, i) # 0}
    IN  IF starts = {} THEN <<>>
        ELSE LET i == Min(starts)
             IN  normalizePhone(SubSeq(text, i, MatchPhoneAt(text, i) - 1))

(***************************************************************************)
(* extractPhoneFR applied to a French number written after some leading    *)
(* text. The number is written piece by piece: the prefix 0 or +33, the    *)
(* first national digit, then groups of two digits, each piece after a     *)
(* separator that is empty, a space, a dot or a hyphen.                    *)
(***************************************************************************)
Separators == {<<>>, <<" ">>, <<".">>, <<"-">>}

Leads == {<<>>, <<"a">>}

FirstDigits == {"6", "1"}

\* the groups of the number 06 12 34 56 78 of the examples
ExamplePairs == <<(<<"1", "2">>), (<<"3", "4">>), (<<"5", "6">>), (<<"7", "8">>)>>

PairsOfGroup(k) == {ExamplePairs[k], <<"0", "0">>}

AllPairs == UNION {PairsOfGroup(k) : k \in 1..PhoneGroups}

PhoneInit ==
    /\ UiAtRest
    /\ \E lead \in Leads :
          call = [fn |-> "extractPhoneFR", stage |-> "build", lead |-> lead,
                  text |-> lead, prefix |-> <<>>, seps |-> <<>>, nat |-> <<>>,
                  out |-> <<>>]

PhonePrefix(p) ==
    /\ call.fn = "extractPhoneFR"
    /\ call.stage = "build"
    /\ call.prefix = <<>>
    /\ call' = [call EXCEPT !.prefix = p, !.text = @ \o p]
    /\ UNCHANGED uiVars

\* the first national digit X; 0X is written without a separator
PhoneFirstDigit(sep, d) ==
    /\ call.fn = "extractPhoneFR"
    /\ call.stage = "build"
    /\ call.prefix # <<>>
    /\ call.nat = <<>>
    /\ call.prefix = <<"0">> => sep = <<>>
    /\ call' = [call EXCEPT !.text = @ \o sep \o <<d>>, !.nat = <<d>>,
                            !.seps = <<sep>>]
    /\ UNCHANGED uiVars

PhoneGroup(sep, pair) ==
    /\ call.fn = "extractPhoneFR"
    /\ call.stage = "build"
    /\ call.nat # <<>>
    /\ Len(call.nat) < 1 + 2 * PhoneGroups
    /\ pair \in PairsOfGroup((Len(call.nat) + 1) \div 2)
    /\ call' = [call EXCEPT !.text = @ \o sep \o pair, !.nat = @ \o pair,
                            !.seps = Append(@, sep)]
    /\ UNCHANGED uiVars

\* out = extractPhoneFR(text)
PhoneExtract ==
    /\ call.fn = "extractPhoneFR"
    /\ call.stage = "build"
    /\ call' = [call EXCEPT !.stage = "done", !.out = extractPhoneFR(call.text)]
    /\ UNCHANGED uiVars

PhoneNext ==
    \/ \E p \in {<<"0">>, <<"+", "3", "3">>} : PhonePrefix(p)
    \/ \E sep \in Separators, d \in FirstDigits : PhoneFirstDigit(sep, d)
    \/ \E sep \in Separators, pair \in AllPairs : PhoneGroup(sep, pair)
    \/ PhoneExtract

SpecPhone == PhoneInit /\ [][PhoneNext]_vars

\* the text is a complete number and nothing else
WholeNumber ==
    /\ call.lead = <<>>
    /\ Len(call.nat) = 1 + 2 * PhoneGroups

\* a string of exactly 10 digits that begins with 0
Canonical(p) ==
    /\ Len(p) = 10
    /\ p[1] = "0"
    /\ \A i \in 1..Len(p) : p[i] \in DigitChars

Ex0612 == <<"0", "6", "1", "2", "3", "4", "5", "6", "7", "8">>

ExSpaced == <<"0", "6", " ", "1", "2", " ", "3", "4", " ", "5", "6", " ", "7", "8">>

ExPlus == <<"+", "3", "3", "6", "1", "2", "3", "4", "5", "6", "7", "8">>

\* C7 as the specification states it: a number 0X XX XX XX XX or +33 X XX XX XX XX with
\* every separator position, the one after +33 too, empty, a space, a dot
\* or a hyphen gives 0 followed by its nine national digits; every result
\* that is not empty is 10 digits beginning with 0.
C7_CanonicalAsStated ==
    call.fn = "extractPhoneFR" /\ call.stage = "done" =>
        /\ WholeNumber => call.out = <<"0">> \o call.nat
        /\ call.out # <<>> => Canonical(call.out)

\* C7: a number 0X XX XX XX XX, or +33 X XX XX XX XX with nothing
\* or one space between +33 and X, with every other separator position
\* empty, a space, a dot or a hyphen, gives 0 followed by its nine national
\* digits; "06 12 34 56 78" and "+33612345678" both give "0612345678";
\* every result that is not empty is 10 digits beginning with 0.
C7_Canonical ==
    call.fn = "extractPhoneFR" /\ call.stage = "done" =>
        /\ WholeNumber /\ call.seps[1] \in {<<>>, <<" ">>}
               => call.out = <<"0">> \o call.nat /\ Canonical(call.out)
        /\ call.text \in {ExSpaced, ExPlus} => call.out = Ex0612
        /\ call.out # <<>> => Canonical(call.out)

\* C7, its case: a +33 number written with a space after +33 and a dot, a hyphen and an
\* empty separator further on has been extracted
C7_Witness ==
    /\ call.fn = "extractPhoneFR"
    /\ call.stage = "done"
    /\ WholeNumber
    /\ call.prefix = <<"+", "3", "3">>
    /\ call.seps[1] = <<" ">>
    /\ {<<".">>, <<"-">>, <<>>} \subseteq Range(call.seps)
    /\ call.out = <<"0">> \o call.nat

(***************************************************************************)
(* guessFullName (lines 72-94)                                             *)
(***************************************************************************)
\* text.split("\n"): the pieces between the newlines, one more than there
\* are newlines
RECURSIVE SplitLinesFrom(_, _)
SplitLinesFrom(s, i) ==
    LET nls == {j \in i..Len(s) : s[j] = NL}
    IN  IF nls = {} THEN <<SubSeq(s, i, Len(s))>>
        ELSE <<SubSeq(s, i, Min(nls) - 1)>> \o SplitLinesFrom(s, Min(nls) + 1)

SplitLines(s) == SplitLinesFrom(s, 1)

\* the first position >= i of l that holds white space (Len(l) + 1 if none)
TokenStop(l, i) ==
    Min({j \in i..(Len(l) + 1) : j = Len(l) + 1 \/ l[j] \in WhiteSpace})

\* l.split(/\s+/).filter(Boolean): the maximal runs of characters that are
\* not white space
RECURSIVE TokensFrom(_, _)
TokensFrom(l, i) ==
    LET starts == {j \in i..Len(l) : l[j] \notin WhiteSpace}
    IN  IF starts = {} THEN <<>>
        ELSE <<SubSeq(l, Min(starts), TokenStop(l, Min(starts)) - 1)>>
             \o TokensFrom(l, TokenStop(l, Min(starts)))

Tokens(l) == TokensFrom(l, 1)

MapTrim(ls) == [i \in 1..Len(ls) |-> Trim(ls[i])]

NonEmpty(l) == l # <<>>

\* lines 73-76
TrimmedLines(text) == SelectSeq(MapTrim(SplitLines(text)), NonEmpty)

\* the closing phrases of line 78, in lowercase (the expression has flag i)
ClosingPhrases ==
    { <<"c", "o", "r", "d", "i", "a", "l", "e", "m", "e", "n", "t">>,
      <<"b", "i", "e", "n", " ", "c", "o", "r", "d", "i", "a", "l", "e", "m", "e", "n", "t">>,
      <<"s", "i", "n", "c", "è", "r", "e", "m", "e", "n", "t">>,
      <<"b", "e", "s", "t", " ", "r", "e", "g", "a", "r", "d", "s">>,
      <<"r", "e", "g", "a", "r", "d", "s">> }

LowerString(l) == [i \in 1..Len(l) |-> ToLower(l[i])]

\* line 78: /^(-{2,}|cordialement|...)$/i
IsBoundaryLine(l) ==
    \/ Len(l) >= 2 /\ \A i \in 1..Len(l) : l[i] = "-"
    \/ LowerString(l) \in ClosingPhrases

\* lines.findIndex(...), 1-based; 0 when no line is a boundary
SigStartIdx(lines) ==
    LET bs == {i \in 1..Len(lines) : IsBoundaryLine(lines[i])}
    IN  IF bs = {} THEN 0 ELSE Min(bs)

\* lines 80-85, with 1-based indices: slice(sigStartIdx + 1, sigStartIdx + 6)
\* is the 5 lines after the boundary, slice(-6) the last 6 lines
CandidateLines(lines) ==
    LET b == SigStartIdx(lines)
        n == Len(lines)
    IN  IF b >= 1 /\ b < n
        THEN SubSeq(lines, b + 1, IF b + 5 < n THEN b + 5 ELSE n)
        ELSE SubSeq(lines, IF n > 6 THEN n - 5 ELSE 1, n)

\* the character classes of line 89
UpperClass == Range(UpperSeq) \cup Range(UpperAccSeq)

LowerClass == Range(LowerSeq) \cup Range(LowerAccSeq) \cup {"'", "-"}

\* line 89: /^[A-Z...][a-z...'\-]+$/
IsCapitalized(t) ==
    /\ Len(t) >= 2
    /\ t[1] \in UpperClass
    /\ \A i \in 2..Len(t) : t[i] \in LowerClass

\* lines 88-90: the test of the tokens of one candidate line
TokensQualify(tokens) ==
    /\ Len(tokens) >= 2
    /\ Len(tokens) <= 4
    /\ Cardinality({i \in 1..Len(tokens) : IsCapitalized(tokens[i])}) >= 2

\* lines 87-90: the test of one candidate line
LineQualifies(l) == TokensQualify(Tokens(l))

\* the loop of lines 86-92 from candidate i on, and line 93
RECURSIVE FirstQualifying(_, _, _)
FirstQualifying(cands, i, fallbackSender) ==
    IF i > Len(cands) THEN fallbackSender
    ELSE IF LineQualifies(cands[i]) THEN cands[i]
         ELSE FirstQualifying(cands, i + 1, fallbackSender)

\* the loop run from the last candidate to the first
RECURSIVE LastQualifying(_, _, _)
LastQualifying(cands, i, fallbackSender) ==
    IF i < 1 THEN fallbackSender
    ELSE IF LineQualifies(cands[i]) THEN cands[i]
         ELSE LastQualifying(cands, i - 1, fallbackSender)

guessFullNameLast(text, fallbackSender) ==
    LET cands == CandidateLines(TrimmedLines(text))
    IN  LastQualifying(cands, Len(cands), fallbackSender)

\* fallbackSender || "" is fallbackSender: the empty string is <<>>
guessFullName(text, fallbackSender) ==
    FirstQualifying(CandidateLines(TrimmedLines(text)), 1, fallbackSender)

(***************************************************************************)
(* guessFullName applied to a text of at most MaxLines lines, of which at  *)
(* most MaxSpecial are other than the filler line.                         *)
(***************************************************************************)
MaxLines == 7

MaxSpecial == 3

\* a line that is no boundary and does not qualify: five tokens, two of them
\* capitalized
FillerLine == <<"A", "l", " ", "B", "o", " ", "C", " ", "D", " ", "E">>

SpecialLines ==
    { <<"-", "-">>,
      <<"R", "E", "G", "A", "R", "D", "S">>,
      <<"J", "e", "a", "n", " ", "D", "u", "p", "o", "n", "t">>,
      <<" ", "É", "l", "i", "s", "e", " ", " ", "D", "'", "a", "r", "c", " ">>,
      <<>> }

Fallbacks == {<<>>, <<"M", "x">>}

NameInit ==
    /\ UiAtRest
    /\ call = [fn |-> "guessFullName", stage |-> "build", raw |-> <<>>,
               text |-> <<>>, special |-> 0, fallback |-> <<>>, out |-> <<>>]

\* one more line at the end of the lines the text is written with
AppendLine(l) ==
    /\ call.fn = "guessFullName"
    /\ call.stage = "build"
    /\ Len(call.raw) < MaxLines
    /\ call' = [call EXCEPT !.raw = Append(@, l),
                            !.special = IF l = FillerLine THEN @ ELSE @ + 1]
    /\ UNCHANGED uiVars

NameAppendFiller == AppendLine(FillerLine)

NameAppendSpecial(l) ==
    /\ call.fn = "guessFullName"
    /\ call.special < MaxSpecial
    /\ AppendLine(l)

\* the lines ls joined by newlines
RECURSIVE JoinLines(_)
JoinLines(ls) ==
    IF ls = <<>> THEN <<>>
    ELSE IF Len(ls) = 1 THEN ls[1]
    ELSE ls[1] \o <<NL>> \o JoinLines(Tail(ls))

\* the call guessFullName(text, fb) and its result
GuessCall(c, text, fb) ==
    [c EXCEPT !.stage = "done", !.text = text, !.fallback = fb,
              !.out = guessFullName(text, fb)]

\* out = guessFullName(text, fallback), the text being the lines written
NameGuess(fb) ==
    /\ call.fn = "guessFullName"
    /\ call.stage = "build"
    /\ call' = GuessCall(call, JoinLines(call.raw), fb)
    /\ UNCHANGED uiVars

NameNext ==
    \/ NameAppendFiller
    \/ \E l \in SpecialLines : NameAppendSpecial(l)
    \/ \E fb \in Fallbacks : NameGuess(fb)

SpecName == NameInit /\ [][NameNext]_vars

\* the non-empty trimmed lines of the text, from the lines it was written with
GivenLines == SelectSeq(MapTrim(call.raw), NonEmpty)

\* the positions of line l where a whitespace-separated token begins
TokenStarts(l) ==
    {i \in 1..Len(l) : l[i] \notin WhiteSpace /\ (i = 1 \/ l[i - 1] \in WhiteSpace)}

\* the last position of the token of l that begins at i
TokenEnd(l, i) ==
    Min({j \in i..Len(l) : j = Len(l) \/ l[j + 1] \in WhiteSpace})

\* the characters i..e of l are a capitalized word: an uppercase letter,
\* then one or more lowercase letters, apostrophes or hyphens
CapitalizedWord(l, i, e) ==
    /\ e > i
    /\ l[i] \in UpperClass
    /\ \A j \in (i + 1)..e : l[j] \in LowerClass

\* of the tokens of l, which begin at the positions starts, there are 2 to
\* 4, at least 2 of them capitalized words
QualifyingTokens(l, starts) ==
    /\ Cardinality(starts) \in 2..4
    /\ Cardinality({i \in starts : CapitalizedWord(l, i, TokenEnd(l, i))}) >= 2

Qualifying(l) == QualifyingTokens(l, TokenStarts(l))

BoundaryIdx(lines) == {i \in 1..Len(lines) : IsBoundaryLine(lines[i])}

\* the indices of the candidate window of n lines, the boundary lines being
\* those at the indices bs: the up-to-5 lines after the first boundary line
\* when it exists and is not the last line, otherwise the last up-to-6 lines
WindowOf(n, bs) ==
    IF bs # {} /\ Min(bs) < n
    THEN {j \in 1..n : j > Min(bs) /\ j <= Min(bs) + 5}
    ELSE {j \in 1..n : j + 6 > n}

WindowIdx(lines) == WindowOf(Len(lines), BoundaryIdx(lines))

QualifyingIdx(lines) == {j \in WindowIdx(lines) : Qualifying(lines[j])}

\* the first of the lines at the indices q, the fallback fb when q is empty
FirstAt(lines, q, fb) == IF q = {} THEN fb ELSE lines[Min(q)]

FirstQualifyingLine(lines, fb) == FirstAt(lines, QualifyingIdx(lines), fb)

\* C8: guessFullName returns the first line of the candidate window that
\* qualifies, and the fallback when no line of the window qualifies.
C8_FirstQualifyingLine ==
    call.fn = "guessFullName" /\ call.stage = "done" =>
        call.out = FirstQualifyingLine(GivenLines, call.fallback)

\* lines, with a boundary line that is not the last one, hold two different
\* qualifying lines at indices of q
TwoInWindow(lines, q) ==
    /\ BoundaryIdx(lines) # {}
    /\ \E j, k \in q : j < k /\ lines[j] # lines[k]

\* C8, its case: a text with a boundary line followed by two qualifying lines, the second
\* one different from the first, has been guessed
C8_Witness ==
    /\ call.fn = "guessFullName"
    /\ call.stage = "done"
    /\ TwoInWindow(GivenLines, QualifyingIdx(GivenLines))
    /\ call.out = FirstQualifyingLine(GivenLines, call.fallback)

(***************************************************************************)
(* createContactOnGraph, lines 114-125: the body of the request            *)
(***************************************************************************)
NouveauContact == <<"N", "o", "u", "v", "e", "a", "u", " ", "c", "o", "n", "t", "a", "c", "t">>

\* a || b for two strings: a unless it is empty
OrElse(a, b) == IF a # <<>> THEN a ELSE b

\* parts.slice(1).join(" ")
RECURSIVE JoinSpace(_)
JoinSpace(parts) ==
    IF parts = <<>> THEN <<>>
    ELSE IF Len(parts) = 1 THEN parts[1]
    ELSE parts[1] \o <<" ">> \o JoinSpace(Tail(parts))

\* lines 121-125: givenName and surname from the tokens of displayName
NamesOf(parts) ==
    IF Len(parts) >= 2
    THEN [givenName |-> parts[1], surname |-> JoinSpace(Tail(parts))]
    ELSE [givenName |-> <<>>, surname |-> <<>>]

ContactBody(displayName, email, phone) ==
    [ givenName      |-> NamesOf(Tokens(displayName)).givenName,
      surname        |-> NamesOf(Tokens(displayName)).surname,
      displayName    |-> OrElse(displayName, OrElse(email, NouveauContact)),
      emailAddresses |-> IF email # <<>>
                         THEN << [address |-> email, name |-> OrElse(displayName, email)] >>
                         ELSE <<>>,
      businessPhones |-> IF phone # <<>> THEN <<phone>> ELSE <<>> ]

(***************************************************************************)
(* The task pane: the messages of the mailbox, the form, the log.          *)
(***************************************************************************)
Fields == {"fullName", "email", "phone"}

\* The messages the user can select: the body the host returns for
\* Office.CoercionType.Html and the sender (item.from).
Items ==
    << [ html |-> <<"<", "p", ">", "B", "o", "n", "j", "o", "u", "r", ",",
                    "<", "/", "p", ">", "<", "p", ">", "M", "o", "n", " ",
                    "n", "u", "m", "e", "r", "o", ":", " ", "0", "6", ".",
                    "1", "2", ".", "3", "4", ".", "5", "6", ".", "7", "8",
                    "<", "/", "p", ">", "<", "p", ">", "-", "-", "<", "/",
                    "p", ">", "<", "p", ">", "M", "a", "r", "i", "e", " ",
                    "C", "u", "r", "i", "e", "<", "/", "p", ">">>,
         emailAddress |-> <<"x", "@", "y", ".", "c", "o", "m">>,
         displayName |-> <<"M", "x">> ],
       [ html |-> <<"<", "d", "i", "v", ">", "M", "e", "r", "c", "i", "<",
                    "b", "r", ">", "+", "3", "3", " ", "1", " ", "2", "3",
                    " ", "4", "5", " ", "6", "7", " ", "8", "9", "<", "/",
                    "d", "i", "v", ">">>,
         emailAddress |-> <<"j", "@", "d", ".", "f", "r">>,
         displayName |-> <<>> ] >>

ItemIds == 1..Len(Items)

\* what the user types into a field: a text with a space before and after it
UserValues == {<<" ", "Z", "o", "é", " ">>}

\* the number of things the user does: clicks on the two buttons, edits of
\* a field, selections of another message
MaxActions == 3

\* the texts of log() (their typographic signs written in ASCII), the values
\* interpolated in them kept apart
MsgScanning == <<"Analyse du message en cours...">>

MsgScanned == <<"Analyse terminée. Vérifie/édite si besoin puis clique sur 'Créer le contact'.">>

MsgScanFailed(message) == <<"Échec de l'analyse : ", message>>

MsgCreating == <<"Création du contact...">>

MsgCreated(created) ==
    << "Contact créé\nNom: ", created.displayName,
       "\nEmail: ", IF created.emailAddresses # <<>>
                    THEN OrElse(created.emailAddresses[1].address, <<"-">>)
                    ELSE <<"-">>,
       "\nTel: ", IF created.businessPhones # <<>>
                  THEN OrElse(created.businessPhones[1], <<"-">>)
                  ELSE <<"-">> >>

MsgCreateFailed(message) ==
    << "Impossible de créer le contact : ", message,
       "\nVérifie les scopes AAD (Contacts.ReadWrite) et la configuration SSO." >>

\* log(msg, cls): className is "log " followed by cls, or by nothing
log(msg, cls) == [cls |-> cls, msg |-> msg]

\* line 136: the message of the error thrown for a response that is not ok
GraphError(status, text) == <<"Graph error ", status, ": ", text>>

\* the failures the collaborators report: res.error of body.getAsync, the
\* rejection of getAccessToken, of fetch, of resp.text() or resp.json()
BodyErrors == {<<"body unavailable">>}

TokenErrors == {<<"sign-in cancelled">>}

FetchErrors == {<<"network error">>}

ReadErrors == {<<"body stream interrupted">>}

\* the responses of the contact-creation API that are not ok
ErrorResponses == {[ok |-> FALSE, status |-> 403, text |-> <<"Forbidden">>]}

\* One run of scanAndFill. pc is where the run stands; reqItem the message
\* whose body it asked for; bodyReqs the calls of body.getAsync; failures
\* the failures reported to it; extracted whether lines 159-161 ran; result
\* the values they extracted; before the form as they found it.
IdleScan ==
    [pc |-> "idle", reqItem |-> 0, bodyReqs |-> 0, failures |-> 0,
     extracted |-> FALSE, outcome |-> "", result |-> <<>>, before |-> <<>>]

\* One run of createContact. args are the constants of lines 176-178;
\* editAtStart the edits of the user as the run found them; tokenReqs and
\* httpReqs the calls of getAccessToken and of fetch; sent the body of the
\* request; resp the response; error the error caught.
IdleCreate ==
    [pc |-> "idle", args |-> <<>>, editAtStart |-> <<>>,
     tokenReqs |-> 0, httpReqs |-> 0, sent |-> <<>>,
     resp |-> <<>>, error |-> <<>>, outcome |-> ""]

(***************************************************************************)
(* scanAndFill (lines 155-170) with getItemBodyText (lines 16-33) and      *)
(* getSenderEmailAndName (lines 97-104)                                    *)
(***************************************************************************)
\* lines 159-161: the three values a run extracts from the text of the
\* body it asked for and from the sender of the message selected now
Extract(text, sender) ==
    [ fullName |-> guessFullName(text, sender.displayName),
      email    |-> sender.emailAddress,
      phone    |-> extractPhoneFR(text) ]

\* line 24: the text of the body of each message
ItemTexts == [r \in ItemIds |-> htmlToText(Items[r].html)]

\* what a run extracts when the body is that of message r and message c is
\* the one selected when the body arrives
ScanResults == [r \in ItemIds |-> [c \in ItemIds |-> Extract(ItemTexts[r], Items[c])]]

\* an element whose value is always set to the empty string
setValBlank(val) == <<>>

\* setVal (lines 142-144): the element's value becomes val || ""
setVal(val) == OrElse(val, <<>>)

\* a field written whatever was extracted: setVal(id, x) without its guard
ScanWriteAlways(old, val) == setVal(val)

\* lines 162-164, "if (x) setVal(id, x)": the value of a field after the
\* scan extracted val for it
ScanWrite(old, val) == IF val # <<>> THEN setVal(val) ELSE old

\* a run that asks for the body again when the provider reports a failure
AfterBodyFailureRetry(s) ==
    [s EXCEPT !.failures = @ + 1, !.bodyReqs = @ + 1]

\* lines 28-30 and 166-169: the promise is rejected, the await throws, the
\* catch block ends the run
AfterBodyFailure(s) ==
    [s EXCEPT !.failures = @ + 1, !.pc = "done", !.outcome = "failed"]

\* lines 156-158 up to the await: item.body.getAsync is called on the
\* message selected at that moment
StartedScan(i) == [IdleScan EXCEPT !.pc = "body", !.reqItem = i, !.bodyReqs = 1]

\* The state once the callback of Office.onReady (lines 196-200) has run:
\* the listeners are registered and the first scanAndFill() waits for the
\* body. The fields of the form are empty.
Init ==
    /\ item \in ItemIds
    /\ form = [f \in Fields |-> <<>>]
    /\ logEl = log(MsgScanning, "")
    /\ scans = <<StartedScan(item)>>
    /\ creates = <<>>
    /\ nActions = 0
    /\ lastEdit = [f \in Fields |-> <<>>]
    /\ call = [fn |-> "none"]

\* a click on btnScan: scanAndFill runs up to its await
ScanStart ==
    /\ nActions < MaxActions
    /\ nActions' = nActions + 1
    /\ scans' = Append(scans, StartedScan(item))
    /\ logEl' = log(MsgScanning, "")
    /\ UNCHANGED <<item, form, creates, lastEdit, call>>

\* the callback of getAsync with status Succeeded; htmlToText does not
\* throw on a string, so the catch of lines 25-27 is not entered
ScanBodyOk(t) ==
    /\ scans[t].pc = "body"
    /\ LET result == ScanResults[scans[t].reqItem][item]
       IN  /\ form' = [f \in Fields |-> ScanWrite(form[f], result[f])]
           /\ lastEdit' = [f \in Fields |->
                              IF lastEdit[f] # <<>> /\ result[f] # <<>>
                              THEN <<[lastEdit[f][1] EXCEPT !.overwritten = TRUE]>>
                              ELSE lastEdit[f]]
           /\ scans' = [scans EXCEPT ![t] =
                           [@ EXCEPT !.pc = "done", !.outcome = "ok",
                                     !.extracted = TRUE, !.result = <<result>>,
                                     !.before = <<form>>]]
    /\ logEl' = log(MsgScanned, "ok")
    /\ UNCHANGED <<item, creates, nActions, call>>

\* the callback of getAsync with another status
ScanBodyFail(t, e) ==
    /\ scans[t].pc = "body"
    /\ scans' = [scans EXCEPT ![t] = AfterBodyFailure(@)]
    /\ logEl' = IF scans'[t].pc = "done" THEN log(MsgScanFailed(e), "ko") ELSE logEl
    /\ UNCHANGED <<item, form, creates, nActions, lastEdit, call>>

(***************************************************************************)
(* The user: an edit of a field, the selection of another message.         *)
(***************************************************************************)
\* a run of scanAndFill has written a value into the form
Populated == \E t \in DOMAIN scans :
                 /\ scans[t].outcome = "ok"
                 /\ \E f \in Fields : scans[t].result[1][f] # <<>>

UserEdit(f, v) ==
    /\ nActions < MaxActions
    /\ nActions' = nActions + 1
    /\ form' = [form EXCEPT ![f] = v]
    /\ lastEdit' = [lastEdit EXCEPT ![f] =
                       <<[value |-> v, afterScan |-> Populated, overwritten |-> FALSE]>>]
    /\ UNCHANGED <<item, logEl, scans, creates, call>>

SelectItem(i) ==
    /\ nActions < MaxActions
    /\ i # item
    /\ nActions' = nActions + 1
    /\ item' = i
    /\ UNCHANGED <<form, logEl, scans, creates, lastEdit, call>>

(***************************************************************************)
(* createContact (lines 173-193) with createContactOnGraph (lines 113-139) *)
(***************************************************************************)
\* the three reads with the element ids of phone and email exchanged
ReadFieldsSwapped(f) ==
    [fullName |-> Trim(f.fullName), email |-> Trim(f.phone), phone |-> Trim(f.email)]

\* lines 176-178: the three values read from the form f; the value read
\* from fullName is the constant displayName
ReadFields(f) ==
    [fullName |-> Trim(f.fullName), email |-> Trim(f.email), phone |-> Trim(f.phone)]

\* the arguments read from the form once the token is there
LateArguments(c) == ReadFields(form)

\* line 180: displayName, email and phone passed to createContactOnGraph
\* are the constants read before the first await
CallArguments(c) == c.args

\* lines 114-125 for the three values of a
BodyOf(a) == ContactBody(a.fullName, a.email, a.phone)

\* A run that has returned: its constants and the request and response
\* objects are gone; what it did stays on record.
Returned(c, outcome, error) ==
    [IdleCreate EXCEPT !.pc = "done", !.outcome = outcome, !.error = error,
                       !.tokenReqs = c.tokenReqs, !.httpReqs = c.httpReqs]

\* a run that asks for a token again when the token is refused
AfterTokenFailureRetry(c, e) == [c EXCEPT !.tokenReqs = @ + 1]

\* line 179 rejected: the await throws, the catch block ends the run
AfterTokenFailure(c, e) == Returned(c, "token failed", <<e>>)

\* a click on btnCreate: createContact runs up to its first await
CreateStart ==
    /\ nActions < MaxActions
    /\ nActions' = nActions + 1
    /\ creates' = Append(creates,
                     [IdleCreate EXCEPT !.pc = "token", !.args = ReadFields(form),
                                        !.editAtStart = lastEdit,
                                        !.tokenReqs = 1])
    /\ logEl' = log(MsgCreating, "")
    /\ UNCHANGED <<item, form, scans, lastEdit, call>>

\* the token arrives: createContactOnGraph builds the body and calls fetch
CreateTokenOk(t) ==
    /\ creates[t].pc = "token"
    /\ creates' = [creates EXCEPT ![t] =
                      [@ EXCEPT !.pc = "fetch", !.httpReqs = @ + 1,
                                !.sent = <<BodyOf(CallArguments(creates[t]))>>]]
    /\ UNCHANGED <<item, form, logEl, scans, nActions, lastEdit, call>>

\* getAccessToken is rejected
CreateTokenFail(t, e) ==
    /\ creates[t].pc = "token"
    /\ creates' = [creates EXCEPT ![t] = AfterTokenFailure(@, e)]
    /\ logEl' = IF creates'[t].pc = "done" THEN log(MsgCreateFailed(e), "ko") ELSE logEl
    /\ UNCHANGED <<item, form, scans, nActions, lastEdit, call>>

\* lines 185-192: the catch block of createContact for the error e
Failed(t, outcome, e) ==
    /\ creates' = [creates EXCEPT ![t] = Returned(@, outcome, <<e>>)]
    /\ logEl' = log(MsgCreateFailed(e), "ko")
    /\ UNCHANGED <<item, form, scans, nActions, lastEdit, call>>

\* fetch is rejected: no response
CreateFetchFail(t, e) ==
    /\ creates[t].pc = "fetch"
    /\ Failed(t, "fetch failed", e)

\* a response that is ok
CreatedResponse == [ok |-> TRUE, status |-> 201]

\* resp.json() for the request of run c: the contact as created, which
\* repeats the body sent
Created(c) == c.sent[1]

\* a response arrives; the run then waits for its body: resp.text() of
\* line 135 or resp.json() of line 138
CreateResponse(t, r) ==
    /\ creates[t].pc = "fetch"
    /\ creates' = [creates EXCEPT ![t] = [@ EXCEPT !.pc = "read", !.resp = <<r>>]]
    /\ UNCHANGED <<item, form, logEl, scans, nActions, lastEdit, call>>

CreateResponseOk(t) == CreateResponse(t, CreatedResponse)

\* the body of a response that is ok has been read: the created contact
CreateSucceed(t) ==
    /\ creates[t].pc = "read"
    /\ creates[t].resp[1].ok
    /\ creates' = [creates EXCEPT ![t] = Returned(@, "created", <<>>)]
    /\ logEl' = log(MsgCreated(Created(creates[t])), "ok")
    /\ UNCHANGED <<item, form, scans, nActions, lastEdit, call>>

\* the text of a response that is not ok has been read: line 136 throws
CreateRejected(t) ==
    /\ creates[t].pc = "read"
    /\ ~creates[t].resp[1].ok
    /\ Failed(t, "rejected",
              GraphError(creates[t].resp[1].status, creates[t].resp[1].text))

\* resp.text() or resp.json() is rejected
CreateReadFail(t, e) ==
    /\ creates[t].pc = "read"
    /\ Failed(t, "read failed", e)

Next ==
    \/ ScanStart
    \/ \E t \in DOMAIN scans : ScanBodyOk(t)
    \/ \E t \in DOMAIN scans, e \in BodyErrors : ScanBodyFail(t, e)
    \/ \E f \in Fields, v \in UserValues : UserEdit(f, v)
    \/ \E i \in ItemIds : SelectItem(i)
    \/ CreateStart
    \/ \E t \in DOMAIN creates : CreateTokenOk(t)
    \/ \E t \in DOMAIN creates, e \in TokenErrors : CreateTokenFail(t, e)
    \/ \E t \in DOMAIN creates, e \in FetchErrors : CreateFetchFail(t, e)
    \/ \E t \in DOMAIN creates : CreateResponseOk(t)
    \/ \E t \in DOMAIN creates, r \in ErrorResponses : CreateResponse(t, r)
    \/ \E t \in DOMAIN creates : CreateSucceed(t)
    \/ \E t \in DOMAIN creates : CreateRejected(t)
    \/ \E t \in DOMAIN creates, e \in ReadErrors : CreateReadFail(t, e)

Spec == Init /\ [][Next]_vars

(***************************************************************************)
(* Properties of createContact and of scanAndFill.                         *)
(***************************************************************************)
\* the step in which run t of scanAndFill receives the body and completes
Completes(t) == scans[t].pc = "body" /\ scans'[t].outcome = "ok"

\* C1: a create action sends the values the three fields held when it
\* started (each with the white space around it removed): the run reads
\* the three fields in the step in which it starts; until it returns, what
\* it has read does not change, the body of its request is built from it
\* whatever the user or a scan wrote into the fields while the token was
\* awaited, and a body that has been sent does not change. A later run
\* reads the form as it is when that run starts.
C1_SendsValuesHeldAtStart ==
    [][ \A t \in DOMAIN creates' :
            IF t \notin DOMAIN creates
            THEN /\ creates'[t].args = ReadFields(form)
                 /\ creates'[t].sent = <<>>
            ELSE creates'[t].pc # "done" =>
                     /\ creates'[t].args = creates[t].args
                     /\ creates'[t].sent # creates[t].sent =>
                            /\ creates[t].sent = <<>>
                            /\ creates'[t].sent = <<BodyOf(creates[t].args)>> ]_vars

\* C1, its case: a request is in flight, the user has edited a field since
\* the run started, and the form no longer gives the body that was sent.
C1_Witness ==
    \E t \in DOMAIN creates :
        /\ creates[t].pc = "fetch"
        /\ creates[t].sent # <<>>
        /\ BodyOf(ReadFields(form)) # creates[t].sent[1]
        /\ \E f \in Fields :
               /\ creates[t].editAtStart[f] = <<>>
               /\ lastEdit[f] # <<>>
               /\ ~lastEdit[f][1].overwritten
               /\ Trim(lastEdit[f][1].value) # creates[t].args[f]

\* the value that the body sent by run c carries for field f
SentValue(c, f) ==
    CASE f = "fullName" -> c.sent[1].displayName
      [] f = "email"    -> IF c.sent[1].emailAddresses = <<>> THEN <<>>
                           ELSE c.sent[1].emailAddresses[1].address
      [] f = "phone"    -> IF c.sent[1].businessPhones = <<>> THEN <<>>
                           ELSE c.sent[1].businessPhones[1]

\* run c read for field f the value v the user typed, and sends it
SendsEdit(c, f, v) ==
    /\ c.args[f] = Trim(v)
    /\ c.sent # <<>> => SentValue(c, f) = Trim(v)

\* C2 as the specification states it: whenever a create action starts
\* after the user edited a field of a form that a scan had filled, and
\* before any further edit of that field, it sends the edited value.
C2_EditAlwaysTakesPrecedence ==
    \A t \in DOMAIN creates : \A f \in Fields :
        LET e == creates[t].editAtStart[f]
        IN  (creates[t].pc # "done" /\ e # <<>> /\ e[1].afterScan) =>
                SendsEdit(creates[t], f, e[1].value)

\* C2: a create action that starts after the user edited a field of a form
\* that a scan had filled, before any further edit of that field and
\* before any scan wrote that field again, has read the edited value
\* (without the white space around it) and sends it.
C2_EditTakesPrecedenceUntilScanWrites ==
    \A t \in DOMAIN creates : \A f \in Fields :
        LET e == creates[t].editAtStart[f]
        IN  (creates[t].pc # "done" /\ e # <<>> /\ e[1].afterScan
                 /\ ~e[1].overwritten) =>
                SendsEdit(creates[t], f, e[1].value)

\* C2, its case: the user edited a field after a scan had filled the form,
\* another scan completed after the edit without a value for that field,
\* and a create action started then has sent its request.
C2_Witness ==
    \E t \in DOMAIN creates : \E f \in Fields :
        LET e == creates[t].editAtStart[f]
        IN  /\ creates[t].pc # "done"
            /\ e # <<>> /\ e[1].afterScan /\ ~e[1].overwritten
            /\ e[1].value # <<>>
            /\ creates[t].sent # <<>>
            /\ \E u \in DOMAIN scans :
                   /\ scans[u].outcome = "ok"
                   /\ scans[u].before[1][f] = e[1].value
                   /\ scans[u].result[1][f] = <<>>

\* C3: no step of a run of scanAndFill (its start, its completion, its
\* failure) makes a non-empty field empty, and such a step changes a field
\* only when the run completes with a non-empty value extracted for that
\* field, which becomes the value of the field.
C3_NeverAutoCleared ==
    [][ scans' # scans =>
          \A f \in Fields :
              /\ form[f] # <<>> => form'[f] # <<>>
              /\ form'[f] # form[f] =>
                     \E t \in DOMAIN scans :
                         /\ Completes(t)
                         /\ scans'[t].result[1][f] # <<>>
                         /\ form'[f] = scans'[t].result[1][f] ]_vars

\* C3, its case: a scan completed with nothing extracted for a field that
\* was not empty, and the field still holds what it held.
C3_Witness ==
    \E t \in DOMAIN scans : \E f \in Fields :
        /\ scans[t].outcome = "ok"
        /\ scans[t].result[1][f] = <<>>
        /\ scans[t].before[1][f] # <<>>
        /\ form[f] = scans[t].before[1][f]
        /\ lastEdit[f] = <<>>

\* the content of field f is not something the user typed
NotEdited(f) == lastEdit[f] = <<>> \/ lastEdit[f][1].overwritten

\* C4 as the specification states it: when a scan completes, every field
\* of the form that holds no edit of the user equals the value that scan
\* extracted for it, the empty string when nothing was found.
C4_FormHoldsExactlyTheResult ==
    [][ \A t \in DOMAIN scans :
            Completes(t) =>
                \A f \in Fields :
                    NotEdited(f) => form'[f] = scans'[t].result[1][f] ]_vars

\* C4: when a scan completes, the values it extracted are the name and the
\* phone number found in the body it asked for and the address (and the
\* fallback name) of the sender of the message selected at that moment;
\* every field for which the value extracted is not empty holds that value,
\* overwriting what an earlier scan or the user put there, and every field
\* for which nothing was found keeps what it held before.
C4_FormHoldsTheValuesFound ==
    [][ \A t \in DOMAIN scans :
            Completes(t) =>
                /\ scans'[t].result = <<ScanResults[scans[t].reqItem][item]>>
                /\ \A f \in Fields :
                       form'[f] = IF scans'[t].result[1][f] # <<>>
                                  THEN scans'[t].result[1][f]
                                  ELSE form[f] ]_vars

\* C4, its case: a scan completed on a form that an earlier scan had
\* filled; it replaced the value of one field by the different value it
\* extracted and found nothing for another field, which it left alone.
C4_Witness ==
    \E t \in DOMAIN scans : \E u \in DOMAIN scans :
        /\ t # u
        /\ scans[t].outcome = "ok"
        /\ scans[u].outcome = "ok"
        /\ \E f \in Fields :
               /\ scans[t].before[1][f] = scans[u].result[1][f]
               /\ scans[t].before[1][f] # <<>>
               /\ scans[t].result[1][f] # <<>>
               /\ scans[t].result[1][f] # scans[t].before[1][f]
               /\ form[f] = scans[t].result[1][f]
        /\ \E g \in Fields :
               /\ scans[t].before[1][g] = scans[u].result[1][g]
               /\ scans[t].before[1][g] # <<>>
               /\ scans[t].result[1][g] = <<>>
               /\ form[g] = scans[t].before[1][g]

\* C5: the step in which the provider reports a failure to a run of
\* scanAndFill ends that run: the body was asked for once, nothing was
\* extracted, the three fields are as they were, the log shows a message
\* of class "ko"; and a run that has ended does nothing more.
C5_BodyFailureStopsTheScan ==
    [][ \A t \in DOMAIN scans :
            /\ scans'[t].failures # scans[t].failures =>
                   /\ scans'[t].pc = "done"
                   /\ scans'[t].outcome = "failed"
                   /\ scans'[t].failures = 1
                   /\ scans'[t].bodyReqs = 1
                   /\ ~scans'[t].extracted
                   /\ scans'[t].result = <<>>
                   /\ form' = form
                   /\ logEl'.cls = "ko"
            /\ scans[t].pc = "done" => scans'[t] = scans[t] ]_vars

\* C5, its case: a scan failed on a form that is not empty, and the log
\* shows the failure.
C5_Witness ==
    \E t \in DOMAIN scans : \E e \in BodyErrors :
        /\ scans[t].outcome = "failed"
        /\ logEl = log(MsgScanFailed(e), "ko")
        /\ \E f \in Fields : form[f] # <<>>

\* C6: a run of createContact asks for a token once and calls fetch at
\* most once; when the token is refused it calls fetch not at all; when
\* the response is not ok and its text has been read, the error is "Graph
\* error", the status and that text; the step in which a run catches an
\* error ends it, with no further request, the log showing the error with
\* class "ko"; a run that has ended does nothing more; and a run shows a
\* message of class "ok" only when it has received a response that is ok.
C6_CreateFailsWithoutRetry ==
    [][ /\ \A t \in DOMAIN creates' :
            LET c == creates'[t]
            IN  /\ c.tokenReqs <= 1
                /\ c.httpReqs <= 1
                /\ c.outcome = "token failed" => c.httpReqs = 0
                /\ (t \in DOMAIN creates /\ creates[t] # c) =>
                       LET b == creates[t]
                       IN  /\ b.pc # "done"
                           /\ c.error # <<>> =>
                                  /\ c.pc = "done"
                                  /\ c.tokenReqs = b.tokenReqs
                                  /\ c.httpReqs = b.httpReqs
                                  /\ logEl' = log(MsgCreateFailed(c.error[1]), "ko")
                           /\ (b.pc = "read" /\ ~b.resp[1].ok
                                   /\ c.outcome # "read failed") =>
                                  /\ c.outcome = "rejected"
                                  /\ c.error = <<GraphError(b.resp[1].status,
                                                            b.resp[1].text)>>
                           /\ c.outcome = "created" => (b.pc = "read" /\ b.resp[1].ok)
        /\ (creates' # creates /\ logEl' # logEl /\ logEl'.cls = "ok") =>
               \E t \in DOMAIN creates :
                   /\ creates[t].pc = "read"
                   /\ creates[t].resp[1].ok
                   /\ creates'[t].outcome = "created" ]_vars

\* C6, its case: one run ended because the token was refused, another
\* because the response was not ok.
C6_Witness ==
    \E t \in DOMAIN creates : \E u \in DOMAIN creates :
        /\ creates[t].outcome = "token failed"
        /\ creates[t].httpReqs = 0
        /\ creates[u].outcome = "rejected"
        /\ creates[u].httpReqs = 1
        /\ logEl.cls = "ko"

====
